---- MODULE Spec2Model ----
(***************************************************************************)
(* A model of weldyn's YamlConfigurableModel: the per-field validation    *)
(* hook that generates, reconciles and rewrites the YAML documents of a   *)
(* schema (weldyn/weldyn.py, weldyn/model_to_yaml_interface.py).          *)
(*                                                                         *)
(* Document trees are tagged nodes.  A dict keeps its insertion order: it  *)
(* is a sequence of <<key, node>> pairs with distinct keys.  A str is the  *)
(* sequence of its characters; the keys of nested records are one          *)
(* character long, so that Python's `key in some_str` (a substring test)   *)
(* is membership among the characters.                                     *)
(***************************************************************************)
EXTENDS Integers, Sequences, FiniteSets, TLC

I(n) == [t |-> "int", n |-> n]
S(s) == [t |-> "str", s |-> s]
M(m) == [t |-> "map", m |-> m]
\* what load_yaml returns for a file with no content: None
Null == [t |-> "null"]
\* no file at the path: is_file() is false
NoFile == [t |-> "nofile"]
\* an in-memory model instance (the value pydantic hands to the validator)
Obj(d) == [t |-> "obj", o |-> d]
\* no value delivered for a field (yet, or because its validator raised)
Undelivered == [t |-> "undelivered"]

IsDict(n) == n.t = "map"

\* `k in d` and `d[k]` for a dict d
HasKey(d, k) == \E i \in 1..Len(d.m) : d.m[i][1] = k
Get(d, k) == d.m[CHOOSE i \in 1..Len(d.m) : d.m[i][1] = k][2]
Keys(d) == {d.m[i][1] : i \in 1..Len(d.m)}

\* `d[k] = val`: an existing key keeps its place, a new key goes last
SetItem(d, k, val) ==
    IF HasKey(d, k)
    THEN M([i \in 1..Len(d.m) |-> IF d.m[i][1] = k THEN <<k, val>> ELSE d.m[i]])
    ELSE M(Append(d.m, <<k, val>>))

\* `key in c` for a loaded value c: a dict tests its keys, a str tests for a
\* substring, and any other value (int, None) is not iterable: TypeError
Iterable(c) == c.t \in {"map", "str"}
Contains(c, key) ==
    IF c.t = "map" THEN HasKey(c, key)
    ELSE \E i \in 1..Len(c.s) : c.s[i] = key

(***************************************************************************)
(* model_to_yaml_interface.py                                              *)
(***************************************************************************)

\* generate_yaml_from_model: the document {field.name: model_class().dict()}
generate_yaml_from_model(name, model_data) == M(<< <<name, model_data>> >>)

RECURSIVE update_nested_yaml_from_model(_, _)

update_nested_yaml_from_model(model_data, yaml_data) ==
    M([i \in 1..Len(model_data.m) |->
        LET key == model_data.m[i][1]
            value == model_data.m[i][2]
        IN  IF HasKey(yaml_data, key) /\ IsDict(value) /\ IsDict(Get(yaml_data, key))
            THEN <<key, update_nested_yaml_from_model(value, Get(yaml_data, key))>>
            ELSE IF HasKey(yaml_data, key) /\ ~IsDict(value)
            THEN <<key, Get(yaml_data, key)>>
            ELSE <<key, value>>])

\* a slip: only the first section that is not expected is deleted
remove_first_missing_section(data, models) ==
    LET missing == {i \in 1..Len(data.m) : data.m[i][1] \notin models}
    IN  IF missing = {} THEN data
        ELSE LET j == CHOOSE i \in missing : \A k \in missing : i <= k
             IN  M([i \in 1..(Len(data.m) - 1) |->
                        IF i < j THEN data.m[i] ELSE data.m[i + 1]])

remove_missing_sections(data, models) ==
    M(SelectSeq(data.m, LAMBDA p : p[1] \in models))

\* line 113, `field.name not in data or any(key not in data[field.name] for
\* key in model_data)`: "TypeError" when data is None, or when the section is
\* not iterable and the generator tests at least one key
SectionIncomplete(name, model_data, data) ==
    IF data.t = "null" THEN "TypeError"
    ELSE IF ~HasKey(data, name) THEN "yes"
    ELSE IF Len(model_data.m) = 0 THEN "no"
    ELSE IF ~Iterable(Get(data, name)) THEN "TypeError"
    ELSE IF \E i \in 1..Len(model_data.m) :
                ~Contains(Get(data, name), model_data.m[i][1])
    THEN "yes"
    ELSE "no"

\* update_yaml_from_model, from the loaded data on: what is dumped and what
\* is returned, or the exception raised before anything is dumped
update_yaml_from_model(name, model_data, models, data) ==
    LET incomplete == SectionIncomplete(name, model_data, data) IN
    IF incomplete = "TypeError"
    THEN [raised |-> "TypeError", dumped |-> data, returned |-> Undelivered]
    ELSE
        LET reset == IF incomplete = "yes" THEN SetItem(data, name, model_data) ELSE data
            merged == IF HasKey(reset, name) /\ IsDict(Get(reset, name))
                      THEN SetItem(reset, name,
                               update_nested_yaml_from_model(model_data, Get(reset, name)))
                      ELSE reset
            pruned == remove_missing_sections(merged, models)
        IN  [raised |-> "none", dumped |-> pruned, returned |-> Get(pruned, name)]

\* check_yaml_path: the file an identifier names. An identifier is the
\* sequence <<stem>> or <<stem, extension>>
check_yaml_path(yaml_file) ==
    IF yaml_file[Len(yaml_file)] # ".yaml" /\ yaml_file[Len(yaml_file)] # ".yml"
    THEN Append(yaml_file, ".yaml")
    ELSE yaml_file

\* check_model_overlap: TRUE when it raises ValueError
check_model_overlap(name, model_mapping) ==
    Cardinality({yaml_file \in DOMAIN model_mapping : name \in model_mapping[yaml_file]}) > 1

\* get_model_mapping_and_path: the mapping, {} when MODEL_MAPPING is undeclared
get_model_mapping(config) ==
    IF config.HAS_MAPPING THEN config.MODEL_MAPPING ELSE <<>>

\* weldyn.py lines 65-66: the identifiers whose list holds the field
Owners(name, model_mapping) ==
    {yaml_file \in DOMAIN model_mapping : name \in model_mapping[yaml_file]}

\* a slip: the document is generated whether or not it exists
is_file_never(content) == FALSE

\* weldyn.py line 69, yaml_file_path.is_file()
is_file(content) == content # NoFile

\* a slip: a field no identifier lists gets a fresh default instance
return_default(v, model_data) == Obj(model_data)

\* weldyn.py line 72, `return v`: the field is handed back as it came
return_v(v, model_data) == v

(***************************************************************************)
(* The schemas, mapping tables and documents the model is run on           *)
(***************************************************************************)

\* instantiations of the schema in one run: the second one sees the
\* documents the first one left
MaxInstantiations == 2
\* persisted leaves are 1..MaxLeaf; every declared default is 1
MaxLeaf == 2

\* destination identifiers of a MODEL_MAPPING, and the files they name
Ids == {<<"models">>, <<"models", ".yaml">>, <<"other", ".yml">>}
Paths == {check_yaml_path(yaml_file) : yaml_file \in Ids}

\* the dicts over the keys a, b with values in V, keys in the order a, b
DictsOver(V) ==
    {<<>>} \cup {<< <<"a", x>> >> : x \in V} \cup {<< <<"b", x>> >> : x \in V}
           \cup {<< <<"a", x>>, <<"b", y>> >> : x, y \in V}
Reversed(V) == {<< <<"b", y>>, <<"a", x>> >> : x, y \in V}

\* model_class().dict() of the section types: records of one or two fields,
\* nested up to two levels, declared in either order
DefaultLeaves == {I(1)}
DefaultInner == {M(d) : d \in DictsOver(DefaultLeaves) \cup Reversed(DefaultLeaves)}
DefaultTrees ==
    {M(d) : d \in DictsOver(DefaultLeaves \cup DefaultInner)
                    \cup Reversed(DefaultLeaves \cup DefaultInner)}

\* what a document may hold for a section: any tree of up to two levels, or
\* a leaf where the section should be
PersistedLeaves == {I(n) : n \in 1..MaxLeaf}
PersistedInner == {M(d) : d \in DictsOver(PersistedLeaves)}
PersistedSections ==
    {M(d) : d \in DictsOver(PersistedLeaves \cup PersistedInner)}
        \cup {I(2), S(<<"a">>), S(<<"b", "a">>)}

\* the documents of a schema of one section m1, with and without other
\* top-level keys
SectionDocuments ==
    {M(<< <<"m1", p>> >>) : p \in PersistedSections}
        \cup {M(<< <<"m3", M(<<>>)>>, <<"m1", p>> >>) : p \in {I(2), M(<< <<"a", I(2)>> >>)}}

\* the documents of the two-section schemas: NoFile, an empty file, or a
\* dict of some of the sections m1, m2 and the stale m3, m4
Edited == M(<< <<"a", I(2)>> >>)
TopLevel(m1s, others) ==
    {M(SelectSeq(<< <<"m3", Edited>>, <<"m1", p>>, <<"m2", Edited>>, <<"m4", Edited>> >>,
                 LAMBDA e : e[1] \in keep \cup {"m1"})) : p \in m1s, keep \in SUBSET others}
        \cup {M(SelectSeq(<< <<"m2", Edited>>, <<"m3", Edited>> >>,
                 LAMBDA e : e[1] \in keep)) : keep \in SUBSET others}
ModelsDocuments ==
    {NoFile, Null} \cup TopLevel({Edited, I(2), S(<<"a">>)}, {"m2", "m3"})
        \cup {M(<< <<"m3", Edited>>, <<"m1", Edited>>, <<"m4", Edited>> >>)}
OtherDocuments == {NoFile, Null, M(<< <<"m2", Edited>> >>)}

\* the schema of the README and the tests: two sections
TwoSections == [m1 |-> M(<< <<"a", I(1)>>, <<"b", M(<< <<"a", I(1)>> >>)>> >>),
                m2 |-> M(<< <<"a", I(1)>> >>)]

\* the scenario of the specification: model_1 {a = 1, b = 'value'} against
\* the document {model_1: {a: 2, c: 'stale'}}
ScenarioDefaults == M(<< <<"a", I(1)>>, <<"b", S(<<"v", "a", "l", "u", "e">>)>> >>)
ScenarioDocument ==
    M(<< <<"m1", M(<< <<"a", I(2)>>, <<"c", S(<<"s", "t", "a", "l", "e">>)>> >>)>> >>)

(***************************************************************************)
(* State                                                                   *)
(***************************************************************************)

VARIABLES
    YamlConfig,     \* the inner class: YAML_PATH, MODEL_MAPPING
    fields,         \* the schema's fields, in declaration order
    annotations,    \* field name -> model_class().dict() of its type
    files,          \* path -> the YAML document there, or NoFile
    dirExists,      \* whether the directory YAML_PATH exists
    pc,             \* "start", "fields", "done": where validation stands
    idx,            \* the next field to validate
    raised,         \* field name -> the exception its validator raised
    values,         \* field name -> the value its validator returned
    result,         \* how the construction ended
    reads,          \* path -> load_yaml calls of this instantiation
    writes,         \* path -> dump_yaml_data calls of this instantiation
    last,           \* the last field validated: its route and what it found
    start,          \* files and dirExists when this instantiation began, and
                    \* the section taken out of the mapping table before it
    inst            \* instantiations begun

vars == <<YamlConfig, fields, annotations, files, dirExists, pc, idx, raised,
          values, result, reads, writes, last, start, inst>>

\* before any field is validated
NoLast == [name |-> "", route |-> "none", path |-> <<>>, before |-> NoFile,
           given |-> Undelivered]
\* no section was taken out of the mapping table
NoRemoval == [name |-> "", path |-> <<>>]

\* the state every instantiation begins in
Fresh ==
    /\ pc = "start"
    /\ idx = 1
    /\ raised = [n \in DOMAIN annotations |-> "none"]
    /\ values = [n \in DOMAIN annotations |-> Undelivered]
    /\ result = "pending"
    /\ reads = [p \in Paths |-> 0]
    /\ writes = [p \in Paths |-> 0]
    /\ last = NoLast
    /\ start = [files |-> files, dirExists |-> dirExists, removed |-> NoRemoval]

\* a schema of two sections, any mapping table, any documents
InitSchema ==
    /\ fields = <<"m1", "m2">>
    /\ annotations = TwoSections
    /\ \E path \in {"none", "str", "Path"}, declared \in BOOLEAN,
          mapping \in [Ids -> SUBSET {"m1", "m2"}] :
            /\ declared \/ \A yaml_file \in Ids : mapping[yaml_file] = {}
            /\ YamlConfig = [YAML_PATH |-> path, HAS_MAPPING |-> declared,
                             MODEL_MAPPING |-> mapping]
    /\ \E models \in ModelsDocuments, other \in OtherDocuments :
            files = [p \in Paths |-> IF p = <<"models", ".yaml">> THEN models ELSE other]
    /\ dirExists \in IF \A p \in Paths : files[p] = NoFile THEN BOOLEAN ELSE {TRUE}

\* a schema of one section of any shape, against any persisted section
InitSection ==
    /\ fields = <<"m1">>
    /\ \E d \in DefaultTrees, doc \in SectionDocuments :
            \/ /\ annotations = [m1 |-> d]
               /\ files = [p \in Paths |-> IF p = <<"models", ".yaml">> THEN doc ELSE NoFile]
            \/ /\ annotations = [m1 |-> ScenarioDefaults]
               /\ files = [p \in Paths |->
                             IF p = <<"models", ".yaml">> THEN ScenarioDocument ELSE NoFile]
    /\ YamlConfig = [YAML_PATH |-> "Path", HAS_MAPPING |-> TRUE,
                     MODEL_MAPPING |-> [yaml_file \in Ids |->
                         IF yaml_file = <<"models">> THEN {"m1"} ELSE {}]]
    /\ dirExists = TRUE

Init ==
    /\ inst = 1
    /\ InitSchema \/ InitSection
    /\ Fresh

(***************************************************************************)
(* weldyn.py: the validators of YamlConfigurableModel                      *)
(***************************************************************************)

\* a slip: an undeclared YAML_PATH is read as None and validation goes on
check_yaml_path_lenient ==
    /\ pc = "start"
    /\ pc' = "fields"
    /\ YamlConfig' = IF YamlConfig.YAML_PATH = "none" THEN YamlConfig
                     ELSE [YamlConfig EXCEPT !.YAML_PATH = "Path"]
    /\ UNCHANGED <<fields, annotations, files, dirExists, idx, raised, values,
                   result, reads, writes, last, start, inst>>

\* @root_validator(pre=True) check_yaml_path. Reading an undeclared
\* YAML_PATH raises AttributeError, which pydantic does not catch: the
\* construction ends there. A str path is replaced by a Path on the class.
YamlConfigurableModel_check_yaml_path ==
    /\ pc = "start"
    /\ IF YamlConfig.YAML_PATH = "none"
       THEN /\ pc' = "done"
            /\ result' = "AttributeError"
            /\ UNCHANGED YamlConfig
       ELSE /\ pc' = "fields"
            /\ YamlConfig' = [YamlConfig EXCEPT !.YAML_PATH = "Path"]
            /\ UNCHANGED result
    /\ UNCHANGED <<fields, annotations, files, dirExists, idx, raised, values,
                   reads, writes, last, start, inst>>

\* the value pydantic passes for a field: its default instance, or the
\* caller's keyword argument
Given(name) == {Obj(annotations[name]), Obj(Edited)}

\* @validator("*", pre=True, always=True) load_or_generate_model_config, for
\* the next field. pydantic catches the ValueError or TypeError of a field's
\* validator, records it and goes on with the next field.
load_or_generate_model_config ==
    /\ pc = "fields"
    /\ idx <= Len(fields)
    /\ idx' = idx + 1
    /\ \E v \in Given(fields[idx]) :
        LET name == fields[idx]
            model_mapping == get_model_mapping(YamlConfig)
            owners == Owners(name, model_mapping)
        IN  IF YamlConfig.YAML_PATH # "none" /\ check_model_overlap(name, model_mapping)
            THEN /\ raised' = [raised EXCEPT ![name] = "ValueError"]
                 /\ last' = [name |-> name, route |-> "conflict", path |-> <<>>,
                             before |-> NoFile, given |-> v]
                 /\ UNCHANGED <<files, dirExists, values, reads, writes>>
            ELSE IF YamlConfig.YAML_PATH = "none" \/ owners = {}
            THEN /\ values' = [values EXCEPT ![name] = return_v(v, annotations[name])]
                 /\ last' = [name |-> name, route |-> "bypassed", path |-> <<>>,
                             before |-> NoFile, given |-> v]
                 /\ UNCHANGED <<files, dirExists, raised, reads, writes>>
            ELSE
                LET yaml_file == CHOOSE f \in owners : TRUE
                    models == model_mapping[yaml_file]
                    model_data == annotations[name]
                    yaml_file_path == check_yaml_path(yaml_file)
                    generate == ~is_file(files[yaml_file_path])
                    data == IF generate
                            THEN generate_yaml_from_model(name, model_data)
                            ELSE files[yaml_file_path]
                    r == update_yaml_from_model(name, model_data, models, data)
                IN  /\ dirExists' = TRUE
                    /\ files' = [files EXCEPT ![yaml_file_path] = r.dumped]
                    /\ reads' = [reads EXCEPT ![yaml_file_path] = @ + 1]
                    /\ writes' = [writes EXCEPT ![yaml_file_path] =
                            @ + (IF generate THEN 1 ELSE 0)
                              + (IF r.raised = "none" THEN 1 ELSE 0)]
                    /\ raised' = [raised EXCEPT ![name] = r.raised]
                    /\ values' = [values EXCEPT ![name] = r.returned]
                    /\ last' = [name |-> name,
                                route |-> IF r.raised # "none" THEN "failed"
                                          ELSE IF generate THEN "generated"
                                          ELSE "reconciled",
                                path |-> yaml_file_path,
                                before |-> files[yaml_file_path],
                                given |-> v]
    /\ UNCHANGED <<YamlConfig, fields, annotations, pc, result, start, inst>>

\* the end of pydantic's validation: a ValidationError when a validator
\* raised, the instance otherwise
Construct ==
    /\ pc = "fields"
    /\ idx > Len(fields)
    /\ pc' = "done"
    /\ result' = IF \E n \in DOMAIN raised : raised[n] # "none"
                 THEN "ValidationError" ELSE "instance"
    /\ UNCHANGED <<YamlConfig, fields, annotations, files, dirExists, idx, raised,
                   values, reads, writes, last, start, inst>>

\* the schema is instantiated again, as it is or with one section taken out
\* of the mapping table, against the documents the last instantiation left
Reinstantiate ==
    /\ pc = "done"
    /\ inst < MaxInstantiations
    /\ inst' = inst + 1
    /\ \/ /\ UNCHANGED YamlConfig
          /\ start' = [files |-> files, dirExists |-> dirExists, removed |-> NoRemoval]
       \/ /\ YamlConfig.HAS_MAPPING
          /\ \E yaml_file \in Ids : \E name \in YamlConfig.MODEL_MAPPING[yaml_file] :
                /\ YamlConfig' = [YamlConfig EXCEPT
                                     !.MODEL_MAPPING[yaml_file] = @ \ {name}]
                /\ start' = [files |-> files, dirExists |-> dirExists,
                             removed |-> [name |-> name,
                                          path |-> check_yaml_path(yaml_file)]]
    /\ UNCHANGED <<fields, annotations, files, dirExists>>
    /\ pc' = "start"
    /\ idx' = 1
    /\ raised' = [n \in DOMAIN annotations |-> "none"]
    /\ values' = [n \in DOMAIN annotations |-> Undelivered]
    /\ result' = "pending"
    /\ reads' = [p \in Paths |-> 0]
    /\ writes' = [p \in Paths |-> 0]
    /\ last' = NoLast

Next ==
    \/ YamlConfigurableModel_check_yaml_path
    \/ load_or_generate_model_config
    \/ Construct
    \/ Reinstantiate

Spec == Init /\ [][Next]_vars

(***************************************************************************)
(* Vocabulary of the properties                                            *)
(***************************************************************************)

Absent == [t |-> "absent"]
IsLeaf(n) == n.t \in {"int", "str"}

\* the node of a tree at a path of keys, Absent when the path leaves the tree
RECURSIVE At(_, _)
At(node, path) ==
    IF path = <<>> THEN node
    ELSE IF IsDict(node) /\ HasKey(node, Head(path)) THEN At(Get(node, Head(path)), Tail(path))
    ELSE Absent

\* the key paths of the sections: up to three keys deep
KeyPaths == UNION {[1..n -> {"a", "b", "c"}] : n \in {1, 2, 3}}

\* the last field went through update_yaml_from_model, which returned
Reconciled == last.route \in {"generated", "reconciled"}
\* what the document held for the last field's section before its validator
\* ran, Absent when it held no such key
PersistedSection ==
    IF IsDict(last.before) THEN At(last.before, <<last.name>>) ELSE Absent
\* what the document holds for it now
WrittenSection ==
    IF IsDict(files[last.path]) THEN At(files[last.path], <<last.name>>) ELSE Absent

\* the sections the mapping table maps to the document at a path
MappedTo(p) ==
    {name \in DOMAIN annotations :
        \E yaml_file \in DOMAIN get_model_mapping(YamlConfig) :
            /\ check_yaml_path(yaml_file) = p
            /\ name \in get_model_mapping(YamlConfig)[yaml_file]}
\* a location is declared and no field is listed under two identifiers
ValidConfig ==
    /\ YamlConfig.YAML_PATH # "none"
    /\ \A name \in DOMAIN annotations :
            ~check_model_overlap(name, get_model_mapping(YamlConfig))
\* nothing was created, read or written in this instantiation
NoIO ==
    /\ files = start.files
    /\ dirExists = start.dirExists
    /\ \A p \in Paths : reads[p] = 0 /\ writes[p] = 0

(***************************************************************************)
(* C1. Scalar preservation: when the persisted section is a map and holds  *)
(* a leaf v at a key (at any depth) where the schema declares a leaf too,  *)
(* the written document and the delivered value both hold v there.         *)
(* The code resets the whole section (lines 113-114) when any declared     *)
(* top-level key is missing from it.                                       *)
(***************************************************************************)
ScalarPreservation ==
    (Reconciled /\ IsDict(PersistedSection)) =>
        \A path \in KeyPaths :
            (IsLeaf(At(PersistedSection, path)) /\ IsLeaf(At(annotations[last.name], path)))
                => /\ At(WrittenSection, path) = At(PersistedSection, path)
                   /\ At(values[last.name], path) = At(PersistedSection, path)

(***************************************************************************)
(* C2. Ownership invariant: when the mapping table lists a field under two *)
(* or more identifiers, the construction ends in the ownership error and   *)
(* nothing is created, read or written at any point of it.                 *)
(* The code checks each field as its turn comes: fields validated before   *)
(* (and after) the conflicting one do their I/O.                           *)
(***************************************************************************)
OwnershipInvariant ==
    (/\ YamlConfig.YAML_PATH # "none"
     /\ \E name \in DOMAIN annotations :
            check_model_overlap(name, get_model_mapping(YamlConfig)))
        => /\ NoIO
           /\ pc = "done" => result = "ValidationError"

(***************************************************************************)
(* C3. Pruning: a key the persisted section holds, at any depth, that the  *)
(* schema does not declare at that position is absent from the merged      *)
(* section, written and delivered.                                         *)
(* The code keeps a persisted value verbatim where the schema declares a   *)
(* leaf (lines 77-78): a persisted map there comes through with its keys.  *)
(***************************************************************************)
Pruning ==
    Reconciled =>
        \A path \in KeyPaths :
            (At(PersistedSection, path) # Absent /\ At(annotations[last.name], path) = Absent)
                => /\ At(WrittenSection, path) = Absent
                   /\ At(values[last.name], path) = Absent

(***************************************************************************)
(* C4. Top-level sections: after an instantiation that raised nothing,     *)
(* every document sections are mapped to holds a top-level key for each of *)
(* them and no other top-level key; and a section taken out of the mapping *)
(* table before the instantiation is absent from its document after it.    *)
(* The code prunes a document only while it validates a section mapped to  *)
(* it, against the list of that one identifier.                            *)
(***************************************************************************)
TopLevelSections ==
    (pc = "done" /\ result = "instance") =>
        /\ \A p \in Paths :
                MappedTo(p) # {} => IsDict(files[p]) /\ Keys(files[p]) = MappedTo(p)
        /\ start.removed # NoRemoval =>
                ~(/\ IsDict(files[start.removed.path])
                  /\ HasKey(files[start.removed.path], start.removed.name))

(***************************************************************************)
(* C5. Default completeness: a section mapped to a document that was       *)
(* missing or empty when the instantiation began is, once the              *)
(* instantiation is over, in the document with every declared field at its *)
(* default, and that tree was delivered for it.                            *)
(* The code raises TypeError on a file with no content (load_yaml returns  *)
(* None, line 113 tests `field.name not in None`).                         *)
(***************************************************************************)
DefaultCompleteness ==
    (pc = "done" /\ ValidConfig) =>
        \A name \in DOMAIN annotations : \A p \in Paths :
            (name \in MappedTo(p) /\ start.files[p] \in {NoFile, Null, M(<<>>)})
                => /\ IsDict(files[p])
                   /\ At(files[p], <<name>>) = annotations[name]
                   /\ values[name] = annotations[name]

(***************************************************************************)
(* C6. Idempotence: reconciling the document a reconciliation wrote,       *)
(* against the same defaults, writes the same document and returns the     *)
(* same section; a second instantiation of an unchanged one-section schema *)
(* leaves the document as the first one left it.                           *)
(***************************************************************************)
LastModels ==
    LET model_mapping == get_model_mapping(YamlConfig)
    IN  model_mapping[CHOOSE f \in DOMAIN model_mapping :
                          last.name \in model_mapping[f] /\ check_yaml_path(f) = last.path]

Idempotence ==
    /\ last.route \in {"generated", "reconciled", "failed"} =>
            LET again == update_yaml_from_model(last.name, annotations[last.name],
                                                LastModels, files[last.path])
            IN  /\ again.raised = raised[last.name]
                /\ again.dumped = files[last.path]
                /\ again.returned = values[last.name]
    /\ (Len(fields) = 1 /\ inst > 1 /\ start.removed = NoRemoval) => files = start.files

\* a second pass over a section that kept a persisted value
IdempotenceWitness ==
    /\ Len(fields) = 1 /\ inst = 2 /\ start.removed = NoRemoval
    /\ last.route = "reconciled"
    /\ pc = "done"
    /\ IsDict(values["m1"])
    /\ values["m1"] # annotations["m1"]

(***************************************************************************)
(* C7. Structural reset: where the document holds a leaf and the schema    *)
(* declares a nested record, reconciliation puts the record's full default *)
(* tree, and does not raise; also where the leaf is the whole section.     *)
(* The code raises TypeError on a section that is an int (line 113 tests   *)
(* `key in 2`), and keeps a str section that contains every declared key.  *)
(***************************************************************************)
StructuralReset ==
    (last.route \in {"reconciled", "failed"} /\ IsDict(last.before)) =>
        /\ IsLeaf(PersistedSection) =>
                /\ raised[last.name] = "none"
                /\ WrittenSection = annotations[last.name]
                /\ values[last.name] = annotations[last.name]
        /\ \A path \in KeyPaths :
                (/\ IsLeaf(At(PersistedSection, path))
                 /\ IsDict(At(annotations[last.name], path)))
                    => /\ raised[last.name] = "none"
                       /\ At(WrittenSection, path) = At(annotations[last.name], path)
                       /\ At(values[last.name], path) = At(annotations[last.name], path)

(***************************************************************************)
(* C8. Missing location: a schema that declares no YAML_PATH fails in the  *)
(* root validator, with or without a MODEL_MAPPING: no field is validated, *)
(* and nothing is created, read or written.                                *)
(***************************************************************************)
MissingLocation ==
    YamlConfig.YAML_PATH = "none" =>
        /\ pc \in {"start", "done"}
        /\ pc = "done" => result = "AttributeError"
        /\ NoIO
        /\ \A name \in DOMAIN annotations : values[name] = Undelivered

\* the construction failed although a mapping names a document to generate
MissingLocationWitness ==
    /\ YamlConfig.YAML_PATH = "none"
    /\ pc = "done" /\ result = "AttributeError"
    /\ YamlConfig.HAS_MAPPING
    /\ \E p \in Paths : MappedTo(p) # {} /\ files[p] = NoFile

(***************************************************************************)
(* C9. Bypass: the validator of a field that no identifier lists returns   *)
(* the value it was given, raises nothing and creates, reads and writes    *)
(* nothing; a field some identifier lists is delivered only out of         *)
(* update_yaml_from_model, which read its document and wrote it.           *)
(***************************************************************************)
Bypass ==
    [][(pc = "fields" /\ idx <= Len(fields) /\ idx' = idx + 1) =>
        LET name == fields[idx]
            model_mapping == get_model_mapping(YamlConfig)
            listed == \E f \in DOMAIN model_mapping : name \in model_mapping[f]
        IN  /\ ~listed =>
                /\ values'[name] = last'.given
                /\ last'.given \in Given(name)
                /\ raised'[name] = "none"
                /\ files' = files /\ dirExists' = dirExists
                /\ reads' = reads /\ writes' = writes
            /\ (listed /\ values'[name] # Undelivered) =>
                /\ last'.route \in {"generated", "reconciled"}
                /\ name \in MappedTo(last'.path)
                /\ reads'[last'.path] = reads[last'.path] + 1
                /\ writes'[last'.path] > writes[last'.path]
                /\ values'[name] = At(files'[last'.path], <<name>>)
    ]_vars

\* a section of a schema with a location and no mapping was delivered as
\* the caller gave it
BypassWitness ==
    /\ last.route = "bypassed"
    /\ ~YamlConfig.HAS_MAPPING
    /\ values[last.name] = Obj(Edited)
    /\ NoIO

(***************************************************************************)
(* C10, as stated. I/O bound: in one instantiation each document is read   *)
(* at most once and written at most once.                                  *)
(***************************************************************************)
IOBound ==
    \A p \in Paths : reads[p] <= 1 /\ writes[p] <= 1

(***************************************************************************)
(* C10, amended. In one instantiation a document is read at most once and  *)
(* rewritten at most once for each section mapped to it, and written once  *)
(* more, to generate it, when it did not exist.                            *)
(***************************************************************************)
IOBoundPerSection ==
    \A p \in Paths :
        /\ reads[p] <= Cardinality(MappedTo(p))
        /\ writes[p] <= Cardinality(MappedTo(p))
                            + (IF start.files[p] = NoFile THEN 1 ELSE 0)

\* two sections in one document that did not exist: two reads, three writes
IOBoundWitness ==
    /\ pc = "done"
    /\ \E p \in Paths :
            /\ start.files[p] = NoFile
            /\ Cardinality(MappedTo(p)) = 2
            /\ reads[p] = 2 /\ writes[p] = 3

(***************************************************************************)
(* C11. Durable sync: under a mapping table that lists each field under at *)
(* most one identifier, every section an identifier owns whose validator   *)
(* has returned is a top-level key of the document that identifier names   *)
(* (".yaml" appended to an identifier without extension), and its subtree  *)
(* there is the value delivered for it: while the later fields are         *)
(* validated, and when the instantiation completes.                        *)
(* The code compares identifiers, not the files they name: 'models' and    *)
(* 'models.yaml' own one file, and each section's validator prunes the     *)
(* file down to the list of its own identifier.                            *)
(***************************************************************************)
DurableSync ==
    (ValidConfig /\ pc \in {"fields", "done"}) =>
        \A i \in 1..(idx - 1) : \A yaml_file \in DOMAIN get_model_mapping(YamlConfig) :
            (/\ i <= Len(fields)
             /\ fields[i] \in get_model_mapping(YamlConfig)[yaml_file]
             /\ raised[fields[i]] = "none")
                => /\ IsDict(files[check_yaml_path(yaml_file)])
                   /\ At(files[check_yaml_path(yaml_file)], <<fields[i]>>) = values[fields[i]]

====
